---- MODULE Spec2Model ----
(***************************************************************************)
(* Model of the solana-sniper bot: the discovery loop (main.py,            *)
(* scanner.py), the monitoring loop (wmain.py), the swap executor          *)
(* (trader.py), the trade ledger (db.py) and the wallet tracker            *)
(* (wallet_utils.py).                                                      *)
(*                                                                         *)
(* Units.  Money is counted in USDT, so AMOUNT_PER_TRADE = 100 * 0.01 = 1. *)
(* Token prices are counted in 1e-8 USDT, the resolution of the            *)
(* entering_price text f"{enter_price:.8f}"; the rate a quote implies is   *)
(* counted in 1e-9 USDT, so that formatting it rounds.  Python's None is   *)
(* Null for numbers; the SQL NULL of error_message is NoError.  Floating   *)
(* point rounding of the PNL arithmetic is outside the model: PNL          *)
(* comparisons are exact.                                                  *)
(***************************************************************************)
EXTENDS Integers, Sequences, FiniteSets, TLC

VARIABLES
    ledger,       \* db: the rows of swap_logs, in id order
    held,         \* chain: the non-excluded mints the wallet holds (balance > 0)
    sent,         \* chain: number of transactions submitted so far
    cache,        \* discovery process: wallet_utils._TOKEN_CACHE, as [age, data]
    capital,      \* discovery process: TradingBot.capital
    SENT_MINTS,   \* discovery process: config.SENT_MINTS
    dpc,          \* discovery process: "idle" | "fetch" | "process"
    fetched,      \* discovery process: nodes of the feed read in this poll
    tokens,       \* discovery process: fetch_tokens' result, what is left of it
    mpc,          \* monitoring process: "idle" | "loop"
    mtokens,      \* monitoring process: the held tokens left in this cycle
    last          \* history: what the most recent step did (never read by a step)

vars == <<ledger, held, sent, cache, capital, SENT_MINTS, dpc, fetched, tokens,
          mpc, mtokens, last>>

-----------------------------------------------------------------------------
(* Bounds of the model *)

NumMints == 2
MaxTx == 2
MaxFeed == 2
MaxHistory == 2
MaxSells == 1
MaxCalls == 2
MaxPools == 3

(* Program constants *)

USDT == 0
RUG_SCORE == 1
MIN_LIQUIDITY == 100000
MIN_SCORE == 55
TAKE_PROFIT == 40
STOP_LOSS == 0 - 50
MAX_OPEN_POSITIONS == 2
AMOUNT_PER_TRADE == 1
START_CAPITAL == 15
DEFAULT_SLIPPAGE_BPS == 50
CACHE_TTL == 5
VALID_POOL_LIQUIDITY == 25000
MIN_24H_VOLUME == 5000
MinPoolSharePct == 10
REFRESH_TIME == 60
TESTING_MODE == FALSE
EXCLUDED_TOKENS == {USDT}

Null == 0 - 1
NoError == "NULL"
NoneKey == 0
WALLET == "wallet"

Mints == 1..NumMints

\* a token the wallet may hold when the discovery program starts, and that
\* the feed does not list
Held0 == NumMints + 1

Min(a, b) == IF a < b THEN a ELSE b

RECURSIVE SortedSeq(_)
SortedSeq(S) ==
    IF S = {} THEN <<>>
    ELSE LET m == CHOOSE x \in S : \A y \in S : x <= y
         IN  <<m>> \o SortedSeq(S \ {m})

RECURSIVE SelectRows(_, _)
SelectRows(rows, mint) ==
    IF rows = <<>> THEN <<>>
    ELSE LET rest == SelectRows(Tail(rows), mint)
         IN  IF Head(rows).output_mint = mint THEN <<Head(rows)>> \o rest ELSE rest

Reverse(s) == [i \in 1..Len(s) |-> s[Len(s) + 1 - i]]

-----------------------------------------------------------------------------
(* db.py *)

Keys(rows) == {rows[i].tx_signature : i \in 1..Len(rows)}

\* a conflict clause that replaces the whole row
UpsertWholeRow(old, new) == new

\* ON DUPLICATE KEY UPDATE status, error_message
UpsertStatusOnly(old, new) ==
    [old EXCEPT !.status = new.status, !.error_message = new.error_message]

Upsert(rows, row) ==
    IF row.tx_signature \in Keys(rows)
    THEN [i \in 1..Len(rows) |->
            IF rows[i].tx_signature = row.tx_signature
            THEN UpsertStatusOnly(rows[i], row) ELSE rows[i]]
    ELSE Append(rows, row)

\* log_swap: db = "connect_error" raises before the try block; "insert_error"
\* (values cannot be converted, or execute fails) is caught and rolled back; a
\* failure after the commit (tx_signature[:12] of None) is caught and leaves
\* the committed row.  A row whose liquidity is None cannot be converted.
log_swap(rows, row, db) ==
    IF db = "connect_error"
    THEN [raised |-> TRUE, stored |-> FALSE, rows |-> rows]
    ELSE IF db = "insert_error" \/ row.output_liqudation = Null
         THEN [raised |-> FALSE, stored |-> FALSE, rows |-> rows]
         ELSE [raised |-> FALSE, stored |-> TRUE, rows |-> Upsert(rows, row)]

\* token_has_swap: the newest row whose output_mint is the mint, or none
token_has_swap(rows, mint) ==
    LET hits == SelectRows(rows, mint)
    IN  IF hits = <<>> THEN <<>> ELSE <<hits[Len(hits)]>>

\* get_swaps_for_token: the rows whose output_mint is the mint, newest first
get_swaps_for_token(rows, mint) == Reverse(SelectRows(rows, mint))

-----------------------------------------------------------------------------
(* trader.py *)

\* f"{enter_price:.8f}": a price in 1e-9 USDT rounded to 1e-8 USDT
FormatPrice8(rate) == (rate + 5) \div 10

\* What the routing service quotes for the trade: outAmount in millions of
\* tokens, rate = expected_in_ui / expected_out_ui in 1e-9 USDT.
Quotes == {[outAmount |-> 250, rate |-> 4], [outAmount |-> 10, rate |-> 100]}

\* The liquidity get_token_info reports (None when the field is null)
Liquidities == {Null, 150000}

\* How far one invocation of swap gets
SwapSteps == {"keypair_error", "token_info_none", "quote_error", "quote_non200",
              "route_error", "route_non200", "sign_error", "send_error",
              "confirm_error", "unconfirmed", "confirmed"}

DbOutcomes == {"ok", "connect_error", "insert_error"}

\* What the environment decides in one invocation of swap.  The liquidity is
\* that of the output token; landed says whether a submitted transaction whose
\* confirmation did not arrive is executed after all.  Where nothing is stored
\* one quote stands for all.
Stored == [quote : Quotes, liquidity : {150000}, db : {"ok"}]
NotStored == [quote : {[outAmount |-> 10, rate |-> 100]}, liquidity : {150000},
              db : {"connect_error", "insert_error"}]
             \cup [quote : {[outAmount |-> 10, rate |-> 100]}, liquidity : {Null},
                   db : {"ok"}]

SwapEnv(step, landed, q) ==
    [step |-> step, landed |-> landed, quote |-> q.quote,
     liquidity |-> q.liquidity, db |-> q.db]

SwapEnvs ==
    {SwapEnv(step, FALSE, q) :
        step \in SwapSteps \ {"send_error", "confirm_error", "unconfirmed", "confirmed"},
        q \in [quote : {[outAmount |-> 10, rate |-> 100]}, liquidity : {150000},
               db : {"ok"}]}
    \cup {SwapEnv(step, FALSE, q) :
            step \in {"send_error", "confirm_error"}, q \in Stored \cup NotStored}
    \cup {SwapEnv("unconfirmed", landed, q) :
            landed \in BOOLEAN, q \in Stored \cup NotStored}
    \cup {SwapEnv("confirmed", TRUE, q) : q \in Stored \cup NotStored}

\* the steps at which a transaction has been submitted (a signature exists)
Submits(step) == step \in {"confirm_error", "unconfirmed", "confirmed"}

\* The status the send/confirm block of swap ends with
SendStatus(step) ==
    IF step = "confirmed" THEN "success"
    ELSE IF step = "unconfirmed" THEN "timeout"
    ELSE "failed"

\* str(tx_signature) if 'tx_signature' in locals() else None, then str() of it
\* in log_swap: the text "None" when send_raw_transaction raised
SignatureKey(step, sig) == IF step = "send_error" THEN NoneKey ELSE sig

\* The row swap hands to log_swap (error_message is never passed)
SwapRow(input_mint, output_mint, amount, action, sig, env) ==
    [wallet            |-> WALLET,
     action            |-> action,
     entering_price    |-> FormatPrice8(env.quote.rate),
     input_mint        |-> input_mint,
     input_amount_ui   |-> amount,
     input_amount_raw  |-> amount * 1000000,
     output_mint       |-> output_mint,
     output_amount_ui  |-> env.quote.outAmount,
     output_amount_raw |-> env.quote.outAmount * 1000000,
     output_liqudation |-> env.liquidity,
     tx_signature      |-> SignatureKey(env.step, sig),
     price_impact_pct  |-> 0,
     slippage_bps      |-> DEFAULT_SLIPPAGE_BPS,
     status            |-> SendStatus(env.step),
     error_message     |-> NoError]

NoSwap == [ret |-> "none", rows |-> <<>>, logged |-> FALSE, stored |-> FALSE,
           submitted |-> FALSE, landed |-> FALSE, duplicate |-> FALSE,
           error_message |-> NoError]

\* what a caller can observe of one invocation of swap
SwapTrace(sw) == [ret |-> sw.ret, logged |-> sw.logged, stored |-> sw.stored,
                  duplicate |-> sw.duplicate, error_message |-> sw.error_message]

\* the simulated mode is tested first, before the RPC client, the keypair
\* file, the token infos and the quote
ShortCircuitAfterKeypair(testing, env) == testing /\ env.step # "keypair_error"
ShortCircuit(testing, env) == testing

\* swap with TESTING_MODE as given: ret is the returned status, or "raised"
\* when an exception leaves swap
swap_in_mode(testing, rows, input_mint, output_mint, amount, action, sig, env) ==
    LET quiet == [NoSwap EXCEPT !.rows = rows]
    IN
    IF ShortCircuit(testing, env) THEN [quiet EXCEPT !.ret = "success"]
    ELSE IF env.step \in {"keypair_error", "token_info_none", "quote_error",
                          "route_error", "sign_error"}
    THEN [quiet EXCEPT !.ret = "raised"]
    ELSE IF env.step \in {"quote_non200", "route_non200"}
    THEN [quiet EXCEPT !.ret = "failed"]
    ELSE LET row == SwapRow(input_mint, output_mint, amount, action, sig, env)
             log == log_swap(rows, row, env.db)
         IN  [ret           |-> IF log.raised THEN "raised" ELSE row.status,
              rows          |-> log.rows,
              logged        |-> TRUE,
              stored        |-> log.stored,
              submitted     |-> env.step # "send_error",
              landed        |-> env.landed,
              duplicate     |-> log.stored /\ row.tx_signature \in Keys(rows),
              error_message |-> row.error_message]

swap(rows, input_mint, output_mint, amount, action, sig, env) ==
    swap_in_mode(TESTING_MODE, rows, input_mint, output_mint, amount, action, sig, env)

-----------------------------------------------------------------------------
(* wallet_utils.py *)

\* _fetch_tokens for both token programs: the accounts with a nonzero amount
FetchWallet(heldMints, usdtListed) ==
    (IF usdtListed THEN <<USDT>> ELSE <<>>) \o SortedSeq(heldMints)

\* get_wallet_tokens_cached; c.age is time() - _TOKEN_CACHE["ts"], and an empty
\* c.data stands for both None and []
get_wallet_tokens_cached(c, wallet) ==
    IF c.data # <<>> /\ c.age < CACHE_TTL
    THEN [tokens |-> c.data, cache |-> c, fetched |-> FALSE]
    ELSE [tokens |-> wallet, cache |-> [age |-> 0, data |-> wallet], fetched |-> TRUE]

can_open_position(toks) ==
    Cardinality({i \in 1..Len(toks) : toks[i] \notin EXCLUDED_TOKENS})
        < MAX_OPEN_POSITIONS

already_opened(toks, mint) == \E i \in 1..Len(toks) : toks[i] = mint

calculate_position_size(usdt_balance, sol_balance, sol_price) ==
    IF sol_price = Null THEN FALSE
    ELSE usdt_balance > AMOUNT_PER_TRADE /\ sol_balance * sol_price > 1

\* time passing for the process that owns the cache
Elapsed(c, seconds) == [c EXCEPT !.age = Min(c.age + seconds, CACHE_TTL)]

-----------------------------------------------------------------------------
(* token_utils.py *)

\* get_token_info: None, or the fields of the first search hit
NoInfo == [ok |-> FALSE, liquidity |-> Null, usdPrice |-> Null]
Prices == {Null, 0, 5, 13, 14}
TokenInfos == [ok : {TRUE}, liquidity : {Null, 50000, 150000}, usdPrice : {Null, 14}]

\* get_token_rug_info: None after the retries, or the score of the report
\* (None when the report has no score)
NoRug == [ok |-> FALSE, rug_score |-> Null]
RugResults == {NoRug} \cup [ok : {TRUE}, rug_score : {Null, RUG_SCORE, 5}]

already_closed_before(info, rows, mint) ==
    LET found == token_has_swap(rows, mint)
    IN  IF ~info.ok THEN FALSE
        ELSE IF found = <<>> THEN FALSE
        ELSE IF found[1].output_liqudation = Null \/ info.liquidity = Null THEN FALSE
        ELSE found[1].output_liqudation > info.liquidity

-----------------------------------------------------------------------------
(* scanner.py: fetch_tokens, one node of the feed per step *)

\* a filter that lets every report through
RugScoreIgnored(rug_score) == TRUE

\* the rug filter of fetch_tokens: the report's score must be the desired one
RugScoreAccepted(rug_score) == rug_score = RUG_SCORE

\* What fetch_tokens does with one node.  round(None, 2) raises before the rug
\* score is compared; printing a None price raises before the append.
FetchNodeOutcome(info, rug) ==
    IF ~info.ok THEN "no_info"
    ELSE IF ~rug.ok THEN "no_rug"
    ELSE IF info.liquidity = Null THEN "raised"
    ELSE IF ~RugScoreAccepted(rug.rug_score) THEN "rug_score"
    ELSE IF info.liquidity < MIN_LIQUIDITY THEN "liquidity"
    ELSE IF info.usdPrice = Null THEN "raised"
    ELSE "passed"

\* run_once up to the answer of the feed: a failed poll ends the cycle
DiscoveryStart ==
    /\ dpc = "idle"
    /\ sent < MaxTx
    /\ \E feed \in {"ok", "failed"} :
        /\ dpc' = IF feed = "ok" THEN "fetch" ELSE "idle"
        /\ cache' = Elapsed(cache, IF feed = "ok" THEN 1 ELSE 1 + REFRESH_TIME)
        /\ last' = [op |-> "poll", outcome |-> feed]
    /\ fetched' = 0
    /\ tokens' = <<>>
    /\ UNCHANGED <<ledger, held, sent, capital, SENT_MINTS, mpc, mtokens>>

\* the test in front of the Telegram snapshot of a token that passed
NotifyAlways(mint, sent_mints) == TRUE
NotifyOnce(mint, sent_mints) == mint \notin sent_mints

\* one iteration of the loop over the feed; an entry of tokens carries, beside
\* the mint, the rug score its node was accepted with (history)
FetchNode ==
    /\ dpc = "fetch"
    /\ fetched < MaxFeed
    /\ sent < MaxTx
    /\ \E mint \in Mints, info \in {NoInfo} \cup TokenInfos, rug \in RugResults :
        LET out == FetchNodeOutcome(info, rug)
            notify == out = "passed" /\ NotifyOnce(mint, SENT_MINTS)
        IN  /\ tokens' = IF out = "passed"
                         THEN Append(tokens, [mint |-> mint, rug_score |-> rug.rug_score])
                         ELSE IF out = "raised" THEN <<>> ELSE tokens
            /\ dpc' = IF out = "raised" THEN "idle" ELSE "fetch"
            /\ fetched' = IF out = "raised" THEN 0 ELSE fetched + 1
            /\ cache' = Elapsed(cache, IF out = "raised" THEN 3 + REFRESH_TIME ELSE 3)
            /\ SENT_MINTS' = IF notify THEN SENT_MINTS \cup {mint} ELSE SENT_MINTS
            /\ last' = [op |-> "fetch_node", mint |-> mint, outcome |-> out,
                        rug_ok |-> info.ok /\ rug.ok,
                        rug_score |-> IF info.ok THEN rug.rug_score ELSE Null,
                        liquidity |-> IF info.ok /\ rug.ok THEN info.liquidity ELSE Null,
                        notified |-> IF notify THEN 1 ELSE 0]
    /\ UNCHANGED <<ledger, held, sent, capital, mpc, mtokens>>

\* the feed is exhausted: fetch_tokens returns, run_once starts on the result
FetchDone ==
    /\ dpc = "fetch"
    /\ sent < MaxTx
    /\ dpc' = IF tokens = <<>> THEN "idle" ELSE "process"
    /\ cache' = IF tokens = <<>> THEN Elapsed(cache, REFRESH_TIME) ELSE cache
    /\ fetched' = 0
    /\ last' = [op |-> "fetch_done", outcome |-> IF tokens = <<>> THEN "none" ELSE "some"]
    /\ UNCHANGED <<ledger, held, sent, capital, SENT_MINTS, tokens, mpc, mtokens>>

-----------------------------------------------------------------------------
(* main.py: process_token, one candidate of the poll per step *)

ScoreValues == {54, 55}

\* the answers of the exchange a buy is tried against
BuyEnvs == {e \in SwapEnvs : e.quote.rate = 100}
UsdtBalances == {0, 1, 2}
SolPrices == {Null, 1, 150}

\* a threshold test that is off by one
ScoreTooLowOffByOne(score) == score < MIN_SCORE - 1

\* the score threshold of process_token
ScoreTooLow(score) == score < MIN_SCORE

\* The end of one call of process_token.  An exception outside the try block
\* (abort) leaves the loop of run_once, whose handler ends the cycle; after the
\* last candidate run_forever sleeps REFRESH_TIME.
\* the POSITION OPENED message: the swap returned "success" and the message
\* could be formatted from token_data
OpenedMessageAnyStatus(ret, shown) == shown
OpenedMessage(ret, shown) == ret = "success" /\ shown

ProcessEnd(outcome, c, sw, score, usdt, sol_price, capital_ok, notified) ==
    LET mint == Head(tokens).mint
        abort == outcome = "raised"
        over == abort \/ Tail(tokens) = <<>>
    IN  /\ tokens' = IF abort THEN <<>> ELSE Tail(tokens)
        /\ dpc' = IF over THEN "idle" ELSE "process"
        /\ cache' = IF over THEN Elapsed(c, REFRESH_TIME) ELSE c
        /\ ledger' = sw.rows
        /\ sent' = IF sw.submitted THEN sent + 1 ELSE sent
        /\ held' = IF sw.landed THEN held \cup {mint} ELSE held
        /\ capital' = IF sw.ret = "success" THEN capital - AMOUNT_PER_TRADE ELSE capital
        /\ last' = [op |-> "process_token", mint |-> mint,
                    rug_score |-> Head(tokens).rug_score, outcome |-> outcome,
                    score |-> score, usdt_balance |-> usdt, sol_price |-> sol_price,
                    capital_ok |-> capital_ok, action |-> "buy",
                    swaps |-> IF sw.ret = "none" THEN <<>> ELSE <<SwapTrace(sw)>>,
                    notified |-> notified]
        /\ UNCHANGED <<SENT_MINTS, fetched, mpc, mtokens>>

ProcessToken ==
    /\ dpc = "process"
    /\ tokens # <<>>
    /\ sent < MaxTx
    /\ LET mint == Head(tokens).mint
           quiet == [NoSwap EXCEPT !.rows = ledger]
           infos == {NoInfo} \cup [ok : {TRUE}, liquidity : {Null, 50000, 150000},
                                   usdPrice : {14}]
       IN
       \/ /\ (\E info \in infos : already_closed_before(info, ledger, mint)) = TRUE
          /\ ProcessEnd("already_closed", cache, quiet, Null, Null, Null, FALSE, 0)
       \/ /\ (\E info \in infos : ~already_closed_before(info, ledger, mint)) = TRUE
          /\ \E usdtListed \in BOOLEAN :
               LET wallet == FetchWallet(held, usdtListed)
                   w1 == get_wallet_tokens_cached(cache, wallet)
                   w2 == get_wallet_tokens_cached(w1.cache, wallet)
                   c == w2.cache
               IN
               \* the wallet RPC raises
               \/ /\ w1.fetched
                  /\ ProcessEnd("raised", cache, quiet, Null, Null, Null, FALSE, 0)
               \/ IF already_opened(w1.tokens, mint)
                  THEN ProcessEnd("already_opened", w1.cache, quiet, Null, Null, Null, FALSE, 0)
                  ELSE IF ~can_open_position(w2.tokens)
                  THEN ProcessEnd("max_positions", c, quiet, Null, Null, Null, FALSE, 0)
                  ELSE
                  \* get_token_info returns None: token_data.get raises
                  \/ ProcessEnd("raised", c, quiet, Null, Null, Null, FALSE, 0)
                  \/ \E score \in ScoreValues :
                       IF ScoreTooLow(score)
                       THEN ProcessEnd("score_low", c, quiet, score, Null, Null, FALSE, 0)
                       ELSE
                       \E usdt \in UsdtBalances, sol_price \in SolPrices :
                         IF ~calculate_position_size(usdt, 1, sol_price)
                         THEN ProcessEnd("no_capital", c, quiet, score, usdt, sol_price,
                                         FALSE, 0)
                         ELSE
                         \* get_quote, called for its printout, raises
                         \/ ProcessEnd("raised", c, quiet, score, usdt, sol_price, TRUE, 0)
                         \/ \E env \in BuyEnvs, shown \in BOOLEAN :
                              LET sw == swap(ledger, USDT, mint, AMOUNT_PER_TRADE, "buy",
                                             sent + 1, env)
                              IN  \* the message cannot be formatted when a field
                                  \* of token_data is None (shown = FALSE)
                                  /\ sw.ret # "success" => shown
                                  /\ ProcessEnd("swapped", c, sw, score, usdt, sol_price,
                                                TRUE,
                                                IF OpenedMessage(sw.ret, shown)
                                                THEN 1 ELSE 0)

-----------------------------------------------------------------------------
(* wmain.py: check_and_monitor, one held token per step *)

\* a take-profit test that leaves the threshold itself out
TakeProfitAbove(price, entry) == (price - entry) * 100 > TAKE_PROFIT * entry

\* pnl_pct >= TAKE_PROFIT, with pnl_pct = (price - entry) / entry * 100
TakeProfitHit(price, entry) == (price - entry) * 100 >= TAKE_PROFIT * entry

StopLossHit(price, entry) == (price - entry) * 100 =< STOP_LOSS * entry

\* exit conditions whose rug branch does not end the iteration
ExitPlanFallThrough(rug_score, price, entry) ==
    LET pnl == IF (price - entry) * 100 >= TAKE_PROFIT * entry THEN <<"take_profit">>
               ELSE IF (price - entry) * 100 =< STOP_LOSS * entry THEN <<"stop_loss">>
               ELSE <<>>
    IN  [triggers |-> (IF rug_score # RUG_SCORE THEN <<"rug">> ELSE <<>>) \o pnl,
         reaches_send |-> TRUE]

\* The exit conditions check_and_monitor evaluates for a token it has an entry
\* price and a price for, in order, and whether control reaches the
\* send_telegram_message at the end of the iteration (the rug branch ends in
\* continue).
ExitPlan(rug_score, price, entry) ==
    IF rug_score # RUG_SCORE THEN [triggers |-> <<"rug">>, reaches_send |-> FALSE]
    ELSE IF TakeProfitHit(price, entry)
    THEN [triggers |-> <<"take_profit">>, reaches_send |-> TRUE]
    ELSE IF StopLossHit(price, entry)
    THEN [triggers |-> <<"stop_loss">>, reaches_send |-> TRUE]
    ELSE [triggers |-> <<>>, reaches_send |-> TRUE]

\* What one iteration does before any exit condition is looked at
MonitorOutcome(mint, info, rug, rows, db_ok) ==
    LET swaps == get_swaps_for_token(rows, mint)
    IN  IF mint \in EXCLUDED_TOKENS THEN "excluded"
        ELSE IF ~info.ok THEN "raised"
        ELSE IF ~rug.ok THEN "no_rug"
        ELSE IF ~db_ok THEN "raised"
        ELSE IF swaps = <<>> THEN "no_entry"
        ELSE IF swaps[1].entering_price =< 0 \/ info.usdPrice =< 0 THEN "no_price"
        ELSE "exits"

\* what the iteration has read when it ends with the outcome
Observed(mint, outcome, info, rug, rows) ==
    LET swaps == get_swaps_for_token(rows, mint)
        has_info == outcome # "excluded" /\ info.ok
        has_rug == has_info /\ rug.ok
        has_swaps == has_rug /\ outcome # "raised"
    IN  [info_ok |-> has_info,
         price |-> IF has_info THEN info.usdPrice ELSE Null,
         rug_ok |-> has_rug,
         rug_score |-> IF has_rug THEN rug.rug_score ELSE Null,
         read_entry |-> has_swaps,
         has_entry |-> has_swaps /\ swaps # <<>>,
         entry_price |-> IF has_swaps /\ swaps # <<>>
                         THEN swaps[1].entering_price ELSE Null]

\* The monitoring process sleeps REFRESH_TIME between cycles and reads the
\* wallet once per cycle, so its own _TOKEN_CACHE is this old or older then.
StaleCache == Elapsed([age |-> 0, data |-> <<>>], REFRESH_TIME)

MonitorStart ==
    /\ mpc = "idle"
    /\ sent < MaxSells
    /\ \E rpc \in {"ok", "error"}, usdtListed \in BOOLEAN :
        LET w == get_wallet_tokens_cached(StaleCache, FetchWallet(held, usdtListed))
            found == IF rpc = "ok" THEN w.tokens ELSE <<>>
        IN  /\ mtokens' = found
            /\ mpc' = IF found = <<>> THEN "idle" ELSE "loop"
            /\ last' = [op |-> "monitor_start",
                        outcome |-> IF rpc = "error" THEN "raised"
                                    ELSE IF found = <<>> THEN "none" ELSE "some"]
    /\ UNCHANGED <<ledger, held, sent, cache, capital, SENT_MINTS, dpc, fetched, tokens>>

\* the sells of one iteration, one swap per trigger, in order
RECURSIVE SellAll(_, _, _, _, _)
SellAll(triggers, rows, mint, sig, envs) ==
    IF triggers = <<>> THEN [rows |-> rows, sig |-> sig, landed |-> FALSE, traces |-> <<>>]
    ELSE LET sw == swap(rows, mint, USDT, 10, "sell", sig + 1, Head(envs))
             rest == SellAll(Tail(triggers), sw.rows, mint,
                             IF sw.submitted THEN sig + 1 ELSE sig, Tail(envs))
         IN  [rows |-> rest.rows, sig |-> rest.sig,
              landed |-> sw.landed \/ rest.landed,
              traces |-> <<SwapTrace(sw)>> \o rest.traces]

MonitorEnd(outcome, info, rug, plan, sold) ==
    LET mint == Head(mtokens)
        abort == outcome = "raised"
        success == \E i \in 1..Len(sold.traces) : sold.traces[i].ret = "success"
    IN  /\ mtokens' = IF abort THEN <<>> ELSE Tail(mtokens)
        /\ mpc' = IF abort \/ Tail(mtokens) = <<>> THEN "idle" ELSE "loop"
        /\ ledger' = sold.rows
        /\ sent' = sold.sig
        /\ held' = IF sold.landed THEN held \ {mint} ELSE held
        /\ last' = [op |-> "monitor_token", mint |-> mint, outcome |-> outcome,
                    seen |-> Observed(mint, outcome, info, rug, ledger),
                    action |-> "sell", triggers |-> plan.triggers,
                    swaps |-> sold.traces, left |-> Len(Tail(mtokens)),
                    notified |-> IF plan.reaches_send /\ success THEN 1 ELSE 0]
        /\ UNCHANGED <<cache, capital, SENT_MINTS, dpc, fetched, tokens>>

MonitorToken ==
    /\ mpc = "loop"
    /\ mtokens # <<>>
    /\ sent < MaxSells
    /\ LET mint == Head(mtokens)
           nothing == [triggers |-> <<>>, reaches_send |-> FALSE]
           unsold == SellAll(<<>>, ledger, mint, sent, <<>>)
       IN
       \E info \in {NoInfo} \cup [ok : {TRUE}, liquidity : {150000}, usdPrice : Prices],
          rug \in RugResults, db_ok \in BOOLEAN :
         LET outcome == MonitorOutcome(mint, info, rug, ledger, db_ok)
         IN
         IF outcome # "exits"
         THEN MonitorEnd(outcome, info, rug, nothing, unsold)
         ELSE
         LET entry == get_swaps_for_token(ledger, mint)[1].entering_price
             plan == ExitPlan(rug.rug_score, info.usdPrice, entry)
         IN
         IF plan.triggers = <<>>
         THEN MonitorEnd("hold", info, rug, plan, unsold)
         ELSE
         \E env \in SwapEnvs :
           /\ MonitorEnd("exit", info, rug, plan,
                      SellAll(plan.triggers, ledger, mint, sent,
                              [i \in 1..Len(plan.triggers) |-> env]))

-----------------------------------------------------------------------------
(* The discovery program: python main.py, started on an empty ledger and a    *)
(* wallet that holds nothing or one token.                                    *)

\* time passes for the discovery process (an external call that takes CACHE_TTL)
Tick ==
    /\ cache.age < CACHE_TTL
    /\ sent < MaxTx
    /\ cache' = Elapsed(cache, CACHE_TTL)
    /\ UNCHANGED <<ledger, held, sent, capital, SENT_MINTS, dpc, fetched, tokens,
                   mpc, mtokens, last>>

Fresh ==
    /\ cache = [age |-> CACHE_TTL, data |-> <<>>]
    /\ capital = START_CAPITAL
    /\ SENT_MINTS = {}
    /\ dpc = "idle"
    /\ fetched = 0
    /\ tokens = <<>>
    /\ mpc = "idle"
    /\ mtokens = <<>>
    /\ last = [op |-> "init", outcome |-> "none"]

Init ==
    /\ ledger = <<>>
    /\ held \in {{}, {Held0}}
    /\ sent = 0
    /\ Fresh

Next ==
    \/ DiscoveryStart
    \/ FetchNode
    \/ FetchDone
    \/ ProcessToken
    \/ Tick

Spec == Init /\ [][Next]_vars

-----------------------------------------------------------------------------
(* The monitoring program: python wmain.py, started on the ledger and the     *)
(* wallet that earlier buys of the discovery program left.                    *)

\* a buy of the discovery program that was confirmed and logged
BuyRow(mint, sig, q) ==
    SwapRow(USDT, mint, AMOUNT_PER_TRADE, "buy", sig, SwapEnv("confirmed", TRUE, q))

Histories ==
    UNION {[1..n -> Mints \X Stored] : n \in 0..MaxHistory}

InitMonitor ==
    /\ \E h \in Histories :
        /\ ledger = [i \in DOMAIN h |-> BuyRow(h[i][1], i, h[i][2])]
        /\ sent = 0
    /\ held \in SUBSET Mints
    /\ Fresh

NextMonitor ==
    \/ MonitorStart
    \/ MonitorToken

SpecMonitor == InitMonitor /\ [][NextMonitor]_vars

-----------------------------------------------------------------------------
(* The ledger on its own: log_swap called with arbitrary arguments, as any    *)
(* caller of db.py may call it.  sent counts the calls.                       *)

ErrorTexts == {NoError, "boom"}

\* the rows log_swap is called with: two signature keys, every status
LogRows ==
    {[SwapRow(USDT, mint, AMOUNT_PER_TRADE, "buy", key, SwapEnv(step, FALSE, q))
        EXCEPT !.error_message = err] :
        mint \in Mints, key \in {NoneKey, 1},
        step \in {"confirmed", "unconfirmed", "confirm_error"},
        q \in Stored \cup NotStored, err \in ErrorTexts}

LogSwap ==
    /\ sent < MaxCalls
    /\ \E row \in LogRows, db \in DbOutcomes :
        LET log == log_swap(ledger, row, db)
        IN  /\ ledger' = log.rows
            /\ last' = [op |-> "log_swap", row |-> row, before |-> ledger,
                        raised |-> log.raised, stored |-> log.stored]
    /\ sent' = sent + 1
    /\ UNCHANGED <<held, cache, capital, SENT_MINTS, dpc, fetched, tokens, mpc, mtokens>>

InitDb ==
    /\ ledger = <<>>
    /\ held = {}
    /\ sent = 0
    /\ Fresh

NextDb == LogSwap

SpecDb == InitDb /\ [][NextDb]_vars

-----------------------------------------------------------------------------
(* trader.py on its own: calls of swap in either mode, with every way the     *)
(* environment can answer.                                                    *)

InitSwap ==
    /\ ledger = <<>> /\ held = {} /\ sent = 0
    /\ Fresh
    /\ last = [op |-> "init", outcome |-> "none"]

\* step: how far the environment lets the call get; db: what the database does;
\* wrote: the ledger differs after the call
SwapCall ==
    /\ sent < MaxTx /\ Len(ledger) < MaxSells
    /\ \E testing \in BOOLEAN, env \in SwapEnvs, mint \in Mints,
          action \in {"buy", "sell"} :
         LET sw == IF action = "buy"
                   THEN swap_in_mode(testing, ledger, USDT, mint, AMOUNT_PER_TRADE,
                                     action, sent + 1, env)
                   ELSE swap_in_mode(testing, ledger, mint, USDT, AMOUNT_PER_TRADE,
                                     action, sent + 1, env)
         IN  /\ ledger' = sw.rows
             /\ sent' = IF sw.submitted THEN sent + 1 ELSE sent
             /\ last' = [op |-> "swap", testing |-> testing, action |-> action,
                         mint |-> mint, step |-> env.step, db |-> env.db,
                         wrote |-> sw.rows # ledger, submitted |-> sw.submitted,
                         swaps |-> <<SwapTrace(sw)>>]
    /\ UNCHANGED <<held, cache, capital, SENT_MINTS, dpc, fetched, tokens, mpc, mtokens>>

NextSwap == SwapCall

SpecSwap == InitSwap /\ [][NextSwap]_vars

\* C21: with the simulated mode on, swap returns "success" whatever the
\* environment would answer, submits no transaction, hands nothing to
\* log_swap and leaves the ledger as it was.
C21_SimulatedSwap ==
    (last.op = "swap" /\ last.testing) =>
        /\ last.swaps[1].ret = "success"
        /\ ~last.swaps[1].logged
        /\ ~last.submitted
        /\ ~last.wrote

\* a simulated call in an environment where the keypair file cannot be read
C21_Witness ==
    /\ last.op = "swap" /\ last.testing
    /\ last.step = "keypair_error"
    /\ last.swaps[1].ret = "success"

-----------------------------------------------------------------------------
(* wallet_utils.py on its own: calls of get_wallet_tokens_cached, time        *)
(* passing between them, and swaps that land and change the wallet.           *)

InitCache ==
    /\ ledger = <<>> /\ sent = 0
    /\ held \in SUBSET Mints
    /\ cache = [age |-> CACHE_TTL, data |-> <<>>]
    /\ capital = START_CAPITAL /\ SENT_MINTS = {}
    /\ dpc = "idle" /\ fetched = 0 /\ tokens = <<>>
    /\ mpc = "idle" /\ mtokens = <<>>
    /\ last = [op |-> "init", outcome |-> "none"]

\* one call; age is the time since the last RPC fetch as the call sees it
ReadWallet ==
    /\ \E usdtListed \in BOOLEAN :
        LET w == get_wallet_tokens_cached(cache, FetchWallet(held, usdtListed))
        IN  /\ cache' = w.cache
            /\ last' = [op |-> "wallet_read", age |-> cache.age, cached |-> cache.data,
                        fetched |-> w.fetched, tokens |-> w.tokens]
    /\ UNCHANGED <<ledger, held, sent, capital, SENT_MINTS, dpc, fetched, tokens,
                   mpc, mtokens>>

Elapse ==
    /\ cache.age < CACHE_TTL
    /\ \E seconds \in 1..CACHE_TTL : cache' = Elapsed(cache, seconds)
    /\ UNCHANGED <<ledger, held, sent, capital, SENT_MINTS, dpc, fetched, tokens,
                   mpc, mtokens, last>>

\* a swap lands: the wallet gains or loses a token; _TOKEN_CACHE is not touched
SwapLands ==
    /\ \E mint \in Mints :
         held' = IF mint \in held THEN held \ {mint} ELSE held \cup {mint}
    /\ UNCHANGED <<ledger, sent, cache, capital, SENT_MINTS, dpc, fetched, tokens,
                   mpc, mtokens, last>>

NextCache ==
    \/ ReadWallet
    \/ Elapse
    \/ SwapLands

SpecCache == InitCache /\ [][NextCache]_vars

\* C14: a call of get_wallet_tokens_cached less than CACHE_TTL seconds after
\* the last RPC fetch makes no RPC fetch and returns the snapshot of that
\* fetch, whatever the wallet held (nothing included); a call CACHE_TTL or
\* more after it fetches.
C14_CacheByTimeOnly ==
    last.op = "wallet_read" =>
        /\ last.age < CACHE_TTL => (~last.fetched /\ last.tokens = last.cached)
        /\ last.age >= CACHE_TTL => last.fetched

-----------------------------------------------------------------------------
(* token_utils.py on its own: the retry loop of get_token_rug_info, one       *)
(* request attempt per step.                                                  *)

RUG_ATTEMPTS == 10
RUG_BACKOFF == 3

\* what one request can come to: a status other than 200, a timeout or other
\* exception of the request, a 200 whose body r.json() cannot decode, a 200
\* with a report (score absent, RUG_SCORE, or another value)
RugResponses ==
    [kind : {"non_200", "timeout", "undecodable"}, score : {Null}]
        \cup [kind : {"ok"}, score : {Null, RUG_SCORE, 5}]

\* the attempts that leave the try block through "except Exception"
RaisesInAttempt(response) == response.kind \in {"timeout", "undecodable"}

ExhaustedLate(attempts) == attempts >= RUG_ATTEMPTS + 1
Exhausted(attempts) == attempts >= RUG_ATTEMPTS

InitRug ==
    /\ ledger = <<>> /\ held = {} /\ sent = 0
    /\ Fresh
    /\ last = [op |-> "init", outcome |-> "none"]

RugCall ==
    /\ IF last.op = "get_token_rug_info" THEN last.done ELSE TRUE
    /\ last' = [op |-> "get_token_rug_info", attempts |-> 0, failures |-> 0,
                previous |-> "none", before |-> 0, response |-> "none",
                after |-> 0, done |-> FALSE, result |-> NoRug]
    /\ UNCHANGED <<ledger, held, sent, cache, capital, SENT_MINTS, dpc, fetched,
                   tokens, mpc, mtokens>>

\* before: seconds slept between the previous attempt and this one;
\* after: seconds slept once this attempt is over
RugAttempt ==
    /\ last.op = "get_token_rug_info" /\ ~last.done
    /\ \E response \in RugResponses :
         LET attempts == last.attempts + 1
             ok == response.kind = "ok"
         IN  last' = [op |-> "get_token_rug_info",
                      attempts |-> attempts,
                      failures |-> IF ok THEN last.failures ELSE last.failures + 1,
                      previous |-> last.response,
                      before |-> last.after,
                      response |-> response.kind,
                      after |-> IF RaisesInAttempt(response) THEN RUG_BACKOFF ELSE 0,
                      done |-> ok \/ Exhausted(attempts),
                      result |-> IF ok THEN [ok |-> TRUE, rug_score |-> response.score]
                                       ELSE NoRug]
    /\ UNCHANGED <<ledger, held, sent, cache, capital, SENT_MINTS, dpc, fetched,
                   tokens, mpc, mtokens>>

NextRug ==
    \/ RugCall
    \/ RugAttempt

SpecRug == InitRug /\ [][NextRug]_vars

\* C15: get_token_rug_info makes at most 10 request attempts; it returns the
\* report of the first HTTP-200 response that decodes, every attempt before
\* it having failed, and returns no result exactly when all 10 attempts
\* failed.
C15_BoundedRetry ==
    last.op = "get_token_rug_info" =>
        /\ last.attempts <= RUG_ATTEMPTS
        /\ ~last.done => (last.attempts < RUG_ATTEMPTS /\ last.failures = last.attempts)
        /\ (last.done /\ last.result = NoRug)
              => (last.attempts = RUG_ATTEMPTS /\ last.failures = RUG_ATTEMPTS)
        /\ (last.done /\ last.result # NoRug)
              => (last.response = "ok" /\ last.failures = last.attempts - 1)
        /\ last.result \in RugResults

C15_Witness ==
    /\ last.op = "get_token_rug_info"
    /\ last.done /\ last.result = NoRug
    /\ last.attempts = RUG_ATTEMPTS

\* C16: between two consecutive request attempts of one call of
\* get_token_rug_info the backoff delay elapses, whatever made the earlier
\* attempt fail.
C16_BackoffBetweenAttempts ==
    (last.op = "get_token_rug_info" /\ last.attempts > 1)
        => last.before >= RUG_BACKOFF

-----------------------------------------------------------------------------
(* token_utils.py, scorer.py: the market data score_token reads.  Money is in *)
(* USD, age in minutes, topHoldersPercentage in percent; Null is a field the  *)
(* upstream record lacks or gives as null.                                    *)

\* the first hit of the asset search for the mint, or no hit / a failed request
NoPayload == [ok |-> FALSE, mcap |-> Null, age |-> Null, holderCount |-> Null,
              topHoldersPercentage |-> Null]

TokenPayloads ==
    {NoPayload}
    \cup [ok : {TRUE}, mcap : {Null, 1000000, 2000000}, age : {Null, 20, 21, 720, 721},
          holderCount : {Null, 199, 200, 10000}, topHoldersPercentage : {Null, 0, 20, 41}]

\* get_token_info: None, or the dict of the fields it copies from the hit.
\* The dict has no topHoldersPercentage and no fdv key.
get_token_info(payload) ==
    [ok |-> payload.ok, mcap |-> payload.mcap, age |-> payload.age,
     holderCount |-> payload.holderCount]

\* what compute_effective_liquidity_from_gecko returns as effective_lp
EffectiveLps == {0, 120000, 240000, 500000}

\* lp_mc = effective_lp / mc if mc > 0 else 0.0, against the breakpoints;
\* mc = float(token.get("mcap") or token.get("fdv") or 0)
LpMcScore(effective_lp, mcap) ==
    LET mc == IF mcap = Null THEN 0 ELSE mcap
        AtLeast(pct) == mc > 0 /\ effective_lp * 100 >= pct * mc
    IN  IF AtLeast(25) THEN 26
        ELSE IF AtLeast(18) THEN 22
        ELSE IF AtLeast(12) THEN 18
        ELSE IF AtLeast(8) THEN 12
        ELSE IF AtLeast(5) THEN 8
        ELSE 0

\* a table that rewards old tokens
AgeScoreReversed(age) ==
    IF age = Null THEN 0
    ELSE IF age =< 20 THEN 3
    ELSE IF age =< 60 THEN 6
    ELSE IF age =< 180 THEN 9
    ELSE IF age =< 720 THEN 12
    ELSE 0

AgeScore(age) ==
    IF age = Null THEN 0
    ELSE IF age =< 20 THEN 12
    ELSE IF age =< 60 THEN 9
    ELSE IF age =< 180 THEN 6
    ELSE IF age =< 720 THEN 3
    ELSE 0

\* int(token.get("holderCount") or 0)
HolderScore(raw) ==
    LET holders == IF raw = Null THEN 0 ELSE raw
    IN  IF holders >= 10000 THEN 12
        ELSE IF holders >= 5000 THEN 9
        ELSE IF holders >= 2000 THEN 6
        ELSE IF holders >= 600 THEN 4
        ELSE IF holders >= 200 THEN 2
        ELSE 0

\* float(token.get("topHoldersPercentage") or 100): a missing percentage, and
\* one of 0, reads as 100
TopHoldersScore(raw) ==
    LET top_pct == IF raw = Null \/ raw = 0 THEN 100 ELSE raw
    IN  IF top_pct =< 20 THEN 10
        ELSE IF top_pct =< 30 THEN 6
        ELSE IF top_pct =< 40 THEN 3
        ELSE 0

\* score_token: the token dict is get_token_info's, which has no
\* topHoldersPercentage key
score_token(payload, effective_lp) ==
    LET token == get_token_info(payload)
    IN  IF ~token.ok THEN 0
        ELSE Min(LpMcScore(effective_lp, token.mcap) + AgeScore(token.age)
                    + HolderScore(token.holderCount) + TopHoldersScore(Null),
                 100)

\* compute_effective_liquidity_from_gecko.  A pool is [allowed, liquidity,
\* volume]: whether its dex is in ALLOWED_DEXES, its fdv_usd, its 24h volume.
PoolKinds == [allowed : BOOLEAN, liquidity : {Null, 15000, 50000, 120000},
              volume : {1000, 5000}]

PoolLists == UNION {[1..n -> PoolKinds] : n \in 0..MaxPools}

RECURSIVE SumSeq(_)
SumSeq(q) == IF q = <<>> THEN 0 ELSE Head(q) + SumSeq(Tail(q))

RECURSIVE MaxSeq(_)
MaxSeq(q) == IF Len(q) = 1 THEN q[1]
             ELSE LET m == MaxSeq(Tail(q)) IN IF Head(q) > m THEN Head(q) ELSE m

\* the first filter: liquidity, volume and exchange
ValidPool(p) ==
    /\ p.liquidity >= VALID_POOL_LIQUIDITY
    /\ p.volume >= MIN_24H_VOLUME
    /\ p.allowed

\* the second filter: lp >= max_lp * MIN_POOL_SHARE and lp >= MIN_LIQUIDITY
SignificantPool(lp, max_lp) ==
    lp * 100 >= max_lp * MinPoolSharePct /\ lp >= MIN_LIQUIDITY

\* request = "failed": the request raised or answered non-200.  float(None)
\* of a null fdv_usd raises out of the function.
compute_effective_liquidity_from_gecko(request, pools) ==
    IF request = "failed"
    THEN [raised |-> FALSE, effective_lp |-> 0, max_pool_lp |-> Null]
    ELSE IF \E i \in 1..Len(pools) : pools[i].liquidity = Null
    THEN [raised |-> TRUE, effective_lp |-> Null, max_pool_lp |-> Null]
    ELSE LET valid == SelectSeq(pools, ValidPool)
             lps == [i \in 1..Len(valid) |-> valid[i].liquidity]
         IN  IF lps = <<>>
             THEN [raised |-> FALSE, effective_lp |-> 0, max_pool_lp |-> Null]
             ELSE LET max_lp == MaxSeq(lps)
                      Counted(lp) == SignificantPool(lp, max_lp)
                  IN  [raised |-> FALSE,
                       effective_lp |-> SumSeq(SelectSeq(lps, Counted)),
                       max_pool_lp |-> max_lp]

\* the fields in which two records differ
Differing(a, b) == {f \in DOMAIN a : a[f] # b[f]}

\* the scorer on its own: a snapshot is scored, then one that differs from it
\* in the effective liquidity or in one field of the upstream record
InitScore ==
    /\ ledger = <<>> /\ held = {} /\ sent = 0
    /\ cache = [age |-> CACHE_TTL, data |-> <<>>]
    /\ capital = START_CAPITAL /\ SENT_MINTS = {}
    /\ dpc = "idle" /\ fetched = 0 /\ tokens = <<>>
    /\ mpc = "idle" /\ mtokens = <<>>
    /\ \E payload \in TokenPayloads, lp \in EffectiveLps :
         LET snap == [payload |-> payload, effective_lp |-> lp]
         IN  last = [op |-> "score_token", first |-> snap, snap |-> snap,
                     first_score |-> score_token(payload, lp),
                     score |-> score_token(payload, lp)]

ScoreToken ==
    /\ last.op = "score_token"
    /\ last.first = last.snap
    /\ \E payload \in TokenPayloads, lp \in EffectiveLps :
        /\ \/ payload = last.first.payload /\ lp # last.first.effective_lp
           \/ /\ lp = last.first.effective_lp
              /\ Cardinality(Differing(last.first.payload, payload)) = 1
        /\ last' = [last EXCEPT !.snap = [payload |-> payload, effective_lp |-> lp],
                                !.score = score_token(payload, lp)]
    /\ UNCHANGED <<ledger, held, sent, cache, capital, SENT_MINTS, dpc, fetched,
                   tokens, mpc, mtokens>>

\* the pool filter on its own, on a pool list of the upstream service
InitPools ==
    /\ ledger = <<>> /\ held = {} /\ sent = 0
    /\ cache = [age |-> CACHE_TTL, data |-> <<>>]
    /\ capital = START_CAPITAL /\ SENT_MINTS = {}
    /\ dpc = "idle" /\ fetched = 0 /\ tokens = <<>>
    /\ mpc = "idle" /\ mtokens = <<>>
    /\ \E pools \in PoolLists :
         last = [op |-> "pools", pools |-> pools]

ComputeEffectiveLiquidity ==
    /\ last.op = "pools"
    /\ \E request \in {"ok", "failed"} :
         last' = [op |-> "effective_liquidity", request |-> request,
                  pools |-> last.pools,
                  result |-> compute_effective_liquidity_from_gecko(request, last.pools)]
    /\ UNCHANGED <<ledger, held, sent, cache, capital, SENT_MINTS, dpc, fetched,
                   tokens, mpc, mtokens>>

NextPools == ComputeEffectiveLiquidity

SpecPools == InitPools /\ [][NextPools]_vars

NextScore == ScoreToken

SpecScore == InitScore /\ [][NextScore]_vars

\* score_token with its clock.  A snapshot is what the two upstream services
\* answered: createdAt (minutes on the clock's scale, Null when absent or not
\* parseable), mcap, holderCount and the effective liquidity.
Snapshots == [createdAt : {Null, 0, 5}, mcap : {Null, 1000000},
              holderCount : {Null, 10000}, effective_lp : {0, 500000}]

Clock == {20, 21, 25, 66}

\* round((datetime.now(timezone.utc) - created_dt).total_seconds() / 60, 2),
\* None when parse_iso_datetime gave None
age_minutes(createdAt, now) == IF createdAt = Null THEN Null ELSE now - createdAt

score_token_at(snapshot, now) ==
    score_token([ok |-> TRUE, mcap |-> snapshot.mcap,
                 age |-> age_minutes(snapshot.createdAt, now),
                 holderCount |-> snapshot.holderCount,
                 topHoldersPercentage |-> Null],
                snapshot.effective_lp)

InitEval ==
    /\ ledger = <<>> /\ held = {} /\ sent = 0
    /\ Fresh
    /\ last = [op |-> "init", outcome |-> "none"]

\* a snapshot is scored for the first time
Evaluate ==
    /\ \E snapshot \in Snapshots, now \in Clock :
         last' = [op |-> "score_token_at", snapshot |-> snapshot,
                  first_now |-> now, first_score |-> score_token_at(snapshot, now),
                  now |-> now, score |-> score_token_at(snapshot, now), calls |-> 1]
    /\ UNCHANGED <<ledger, held, sent, cache, capital, SENT_MINTS, dpc, fetched,
                   tokens, mpc, mtokens>>

\* the same snapshot is scored again, at the same time or later
Reevaluate ==
    /\ last.op = "score_token_at"
    /\ last.calls < MaxCalls
    /\ \E now \in Clock :
        /\ now >= last.now
        /\ last' = [last EXCEPT !.now = now,
                                !.score = score_token_at(last.snapshot, now),
                                !.calls = last.calls + 1]
    /\ UNCHANGED <<ledger, held, sent, cache, capital, SENT_MINTS, dpc, fetched,
                   tokens, mpc, mtokens>>

NextEval ==
    \/ Evaluate
    \/ Reevaluate

SpecEval == InitEval /\ [][NextEval]_vars

\* C22: two evaluations of score_token on the same market-data snapshot return
\* the same score, whenever they are made.
C22_ScoreDeterministic ==
    (last.op = "score_token_at" /\ last.calls > 1) => last.score = last.first_score

\* the second snapshot is the first with one favourable metric improved
Improved(a, b) ==
    /\ a.payload.ok /\ b.payload.ok
    /\ \/ /\ a.payload = b.payload
          /\ a.payload.mcap # Null /\ b.effective_lp > a.effective_lp
       \/ /\ Differing(a.payload, b.payload) = {"mcap"}
          /\ a.effective_lp = b.effective_lp
          /\ a.payload.mcap # Null /\ b.payload.mcap # Null
          /\ b.payload.mcap < a.payload.mcap
       \/ /\ Differing(a.payload, b.payload) = {"holderCount"}
          /\ a.payload.holderCount # Null
          /\ b.payload.holderCount > a.payload.holderCount
       \/ /\ Differing(a.payload, b.payload) = {"topHoldersPercentage"}
          /\ a.payload.topHoldersPercentage # Null
          /\ b.payload.topHoldersPercentage # Null
          /\ b.payload.topHoldersPercentage < a.payload.topHoldersPercentage
       \/ /\ Differing(a.payload, b.payload) = {"age"}
          /\ a.payload.age # Null /\ b.payload.age # Null
          /\ b.payload.age < a.payload.age

MaximalSnapshot(snap) ==
    /\ snap.payload.ok
    /\ LpMcScore(snap.effective_lp, snap.payload.mcap) = 26
    /\ AgeScore(snap.payload.age) = 12
    /\ HolderScore(snap.payload.holderCount) = 12
    /\ snap.payload.topHoldersPercentage \in 1..20

\* C28: a token that is maximal in every implemented scoring category gets a
\* score of at least MIN_SCORE from score_token, so that a buy can be reached.
C28_BuyReachable ==
    (last.op = "score_token" /\ MaximalSnapshot(last.snap)) => last.score >= MIN_SCORE

\* no snapshot at all reaches the threshold
ScoreBelowThreshold ==
    last.op = "score_token" => (last.score < MIN_SCORE /\ last.first_score < MIN_SCORE)

\* a pool the claim of C13 counts, given the pools of the answer
ClaimedPool(p, pools) ==
    /\ ValidPool(p)
    /\ \A i \in 1..Len(pools) :
          ValidPool(pools[i]) => p.liquidity * 100 >= pools[i].liquidity * MinPoolSharePct

\* the answer arrived and every pool of it has a numeric liquidity
PoolsScored ==
    /\ last.op = "effective_liquidity"
    /\ last.request = "ok"
    /\ ~last.result.raised

\* C13: the effective liquidity is the sum over exactly the pools on an
\* allowed exchange with liquidity >= VALID_POOL_LIQUIDITY, 24h volume >=
\* MIN_24H_VOLUME and liquidity >= MIN_POOL_SHARE of the largest such pool;
\* no other threshold removes a pool.
C13_EffectiveLiquidity ==
    PoolsScored =>
        LET Claimed(p) == ClaimedPool(p, last.pools)
            counted == SelectSeq(last.pools, Claimed)
        IN  last.result.effective_lp
                = SumSeq([i \in 1..Len(counted) |-> counted[i].liquidity])

\* C17: compute_effective_liquidity_from_gecko never raises: when the request
\* fails, and when a pool of the answer has a null liquidity field, it returns
\* effective liquidity 0.
C17_MarketDataNeverRaises ==
    last.op = "effective_liquidity" =>
        /\ ~last.result.raised
        /\ (\/ last.request = "failed"
            \/ \E i \in 1..Len(last.pools) : last.pools[i].liquidity = Null)
              => last.result.effective_lp = 0

-----------------------------------------------------------------------------
(* Properties of the discovery program (Spec)                                 *)

Statuses == {"success", "failed", "timeout"}

\* the invocations of swap the most recent step made
LastSwaps == IF last.op \in {"process_token", "monitor_token"} THEN last.swaps ELSE <<>>

\* C1: the discovery loop never invokes swap(buy) for a mint whose rug score
\* in that poll differs from RUG_SCORE or whose rug report was unavailable:
\* a node with such a report is never accepted by fetch_tokens, every
\* candidate left to process was accepted with RUG_SCORE, and a call of
\* process_token that reached swap was for such a candidate.
C1_NoBuyOnBadRug ==
    /\ (last.op = "fetch_node" /\ (~last.rug_ok \/ last.rug_score # RUG_SCORE))
            => last.outcome # "passed"
    /\ \A i \in 1..Len(tokens) : tokens[i].rug_score = RUG_SCORE
    /\ (last.op = "process_token" /\ last.swaps # <<>>) => last.rug_score = RUG_SCORE

\* a node with a deviating score and enough liquidity was rejected in a poll
\* of a run in which candidates do get bought
C1_Witness ==
    /\ last.op = "fetch_node"
    /\ last.rug_ok /\ last.rug_score = 5
    /\ last.liquidity >= MIN_LIQUIDITY
    /\ last.outcome = "rug_score"
    /\ ledger # <<>>

\* C2: every invocation of swap outside simulated mode hands one trade record
\* to log_swap before it returns, and the record of an attempt that returned
\* "failed" carries an error text.
C2_EverySwapLogged ==
    \A i \in 1..Len(LastSwaps) :
        LastSwaps[i].ret \in Statuses =>
            /\ LastSwaps[i].logged
            /\ LastSwaps[i].ret = "failed" => LastSwaps[i].error_message # NoError

\* C3: every invocation of swap ends by returning "success", "failed" or
\* "timeout"; no exception leaves swap.
C3_SwapReturnsStatus ==
    \A i \in 1..Len(LastSwaps) : LastSwaps[i].ret \in Statuses

\* C26: when swap reached log_swap and the record could not be stored, swap
\* still returns the status of send/confirm.
C26_PersistenceFailureSwallowed ==
    \A i \in 1..Len(LastSwaps) :
        (LastSwaps[i].logged /\ ~LastSwaps[i].stored) => LastSwaps[i].ret \in Statuses

\* C27: the number of non-excluded mints held never exceeds
\* MAX_OPEN_POSITIONS, whatever buys the discovery cycles made.
C27_PositionLimit ==
    Cardinality(held \ EXCLUDED_TOKENS) =< MAX_OPEN_POSITIONS

\* C5: two different swap attempts are never recorded under the same
\* tx_signature key: no invocation of swap stores its record on a key the
\* ledger already holds.
C5_OneTradePerSignature ==
    \A i \in 1..Len(LastSwaps) : ~LastSwaps[i].duplicate

\* C10: calculate_position_size returns True exactly when the USDT balance is
\* at least AMOUNT_PER_TRADE and the SOL balance (1 SOL) is worth more than
\* 1 USD, and process_token invokes no swap(buy) when the USDT balance is
\* below AMOUNT_PER_TRADE.
C10_CapitalCheck ==
    (last.op = "process_token" /\ last.usdt_balance # Null) =>
        /\ last.capital_ok <=> (last.usdt_balance >= AMOUNT_PER_TRADE
                                 /\ last.sol_price # Null /\ 1 * last.sol_price > 1)
        /\ last.usdt_balance < AMOUNT_PER_TRADE => last.swaps = <<>>

\* C11: process_token checks previously-exited, already-held and
\* position-limit before it calls score_token, and invokes swap(buy) only when
\* all three passed, the score is at least MIN_SCORE (MIN_SCORE itself
\* passes) and the capital check returned True.
C11_CheckOrder ==
    last.op = "process_token" =>
        /\ last.outcome \in {"already_closed", "already_opened", "max_positions"}
              => (last.score = Null /\ last.swaps = <<>>)
        /\ last.outcome = "score_low" <=> (last.score # Null /\ last.score < MIN_SCORE)
        /\ last.swaps # <<>>
              => /\ last.outcome = "swapped"
                 /\ last.score >= MIN_SCORE
                 /\ last.capital_ok

\* a candidate whose score is exactly MIN_SCORE was bought
C11_Witness ==
    /\ last.op = "process_token"
    /\ last.score = MIN_SCORE
    /\ Len(last.swaps) = 1 /\ last.swaps[1].ret = "success"

-----------------------------------------------------------------------------
(* Properties of the ledger (SpecDb)                                          *)

\* the fields of a row other than status and error_message
Monetary(row) ==
    <<row.wallet, row.action, row.entering_price, row.input_mint,
      row.input_amount_ui, row.input_amount_raw, row.output_mint,
      row.output_amount_ui, row.output_amount_raw, row.output_liqudation,
      row.price_impact_pct, row.slippage_bps>>

\* the call of log_swap just made met the row of an earlier call with the
\* same tx_signature and a different status, and went through
SecondInsert(i) ==
    /\ last.op = "log_swap" /\ last.stored
    /\ i \in 1..Len(last.before)
    /\ last.before[i].tx_signature = last.row.tx_signature
    /\ last.before[i].status # last.row.status

\* C4: after log_swap is called with a tx_signature the ledger already holds
\* and a different status, that row has the status and error_message of the
\* second call, every other field of it is as the first insert left it, and
\* the ledger has as many rows as before.
C4_UpsertStatusOnly ==
    \A i \in 1..MaxCalls :
        SecondInsert(i) =>
            /\ Len(ledger) = Len(last.before)
            /\ ledger[i].tx_signature = last.row.tx_signature
            /\ ledger[i].status = last.row.status
            /\ ledger[i].error_message = last.row.error_message
            /\ Monetary(ledger[i]) = Monetary(last.before[i])

\* a second call that differs from the first insert in status, error text,
\* entry price and output mint
C4_Witness ==
    \E i \in 1..MaxCalls :
        /\ SecondInsert(i)
        /\ last.row.error_message # last.before[i].error_message
        /\ last.row.entering_price # last.before[i].entering_price
        /\ last.row.output_mint # last.before[i].output_mint

-----------------------------------------------------------------------------
(* Properties of the monitoring program (SpecMonitor)                         *)

Triggered(kind) ==
    /\ last.op = "monitor_token"
    /\ \E i \in 1..Len(last.triggers) : last.triggers[i] = kind

\* C6: for every held, non-excluded token whose rug report is available with
\* a score different from RUG_SCORE, check_and_monitor invokes swap(sell) in
\* that cycle, also when the trade records it reads hold no entry for the
\* mint or there is no price.
C6_RugDeviationSells ==
    (/\ last.op = "monitor_token"
     /\ last.mint \notin EXCLUDED_TOKENS
     /\ last.seen.rug_ok
     /\ last.seen.rug_score \notin {RUG_SCORE, Null}
     /\ last.seen.read_entry)
        => last.swaps # <<>>

\* C7: one iteration invokes at most one swap(sell), for exactly one of the
\* conditions; a deviating rug score leaves take-profit and stop-loss
\* unevaluated; and the token is not looked at again in the cycle.
C7_OneSellPerToken ==
    last.op = "monitor_token" =>
        /\ Len(last.swaps) =< 1
        /\ Len(last.triggers) = Len(last.swaps)
        /\ (last.seen.rug_ok /\ last.seen.rug_score # RUG_SCORE)
               => ~Triggered("take_profit") /\ ~Triggered("stop_loss")
        /\ \A i \in 1..Len(mtokens) : mtokens[i] # last.mint

\* a rug exit at a price that also meets take-profit, whose sell failed
C7_Witness ==
    /\ Triggered("rug")
    /\ last.seen.rug_score = 5
    /\ (last.seen.price - last.seen.entry_price) * 100
           >= TAKE_PROFIT * last.seen.entry_price
    /\ Len(last.swaps) = 1 /\ last.swaps[1].ret = "failed"

\* C18: when the token info of one held token is unavailable, the monitoring
\* cycle goes on: every token that was left in the cycle is still to be
\* evaluated.
C18_FailureSkipsOneToken ==
    (last.op = "monitor_token" /\ last.outcome # "excluded" /\ ~last.seen.info_ok)
        => Len(mtokens) = last.left

\* C19: SENT_MINTS never loses a mint; a node of the feed that is notified
\* was not in SENT_MINTS and is in it afterwards; a node whose mint is in
\* SENT_MINTS is not notified, in the same poll or a later one.
C19_OneNotificationPerMint ==
    [][/\ SENT_MINTS \subseteq SENT_MINTS'
       /\ (dpc = "fetch" /\ fetched' = fetched + 1 /\ last'.op = "fetch_node")
             => /\ last'.notified = 1
                   => (last'.mint \notin SENT_MINTS /\ last'.mint \in SENT_MINTS')
                /\ last'.mint \in SENT_MINTS => last'.notified = 0]_vars

\* a mint passed the filters again and no second snapshot was sent
C19_Witness ==
    /\ last.op = "fetch_node"
    /\ last.outcome = "passed"
    /\ last.notified = 0
    /\ last.mint \in SENT_MINTS

SwapSucceeded ==
    \E i \in 1..Len(last.swaps) : last.swaps[i].ret = "success"

\* C20: every notification is sent after a swap that returned "success"; none
\* is sent when nothing was bought or sold, or after a swap that returned
\* "failed" or "timeout".
C20_NotifyOnlyAfterSuccess ==
    (last.op \in {"fetch_node", "process_token", "monitor_token"} /\ last.notified = 1)
        => IF last.op = "fetch_node" THEN FALSE ELSE SwapSucceeded

\* C20 as the code has it: a notification of process_token or of
\* check_and_monitor is sent after a swap that returned "success", never after
\* "failed" or "timeout" or without a swap; fetch_tokens sends a token
\* snapshot, without any swap, for a node that passed its filters.
C20_NotifyOnSuccessOrSnapshot ==
    (last.op \in {"fetch_node", "process_token", "monitor_token"} /\ last.notified = 1)
        => IF last.op = "fetch_node" THEN last.outcome = "passed" ELSE SwapSucceeded

C20_Witness ==
    /\ last.op = "process_token"
    /\ last.notified = 1
    /\ last.swaps # <<>> /\ last.swaps[1].ret = "success"

\* C23: process_token takes a candidate for previously exited only if the
\* ledger holds a sell of that mint; a mint that was only bought, or whose buy
\* failed, is not reported.
C23_ClosedMeansSold ==
    (last.op = "process_token" /\ last.outcome = "already_closed")
        => \E i \in 1..Len(ledger) :
              /\ ledger[i].action = "sell"
              /\ ledger[i].input_mint = last.mint

\* C24: for a held token with rug score RUG_SCORE and a positive entry price,
\* swap(sell) is invoked whenever the price puts PNL% at or below STOP_LOSS,
\* a price of zero and a missing price (read as zero) included.
C24_StopLossAtAnyPrice ==
    (/\ last.op = "monitor_token"
     /\ last.mint \notin EXCLUDED_TOKENS
     /\ last.seen.rug_ok /\ last.seen.rug_score = RUG_SCORE
     /\ last.seen.has_entry /\ last.seen.entry_price > 0
     /\ LET price == IF last.seen.price = Null THEN 0 ELSE last.seen.price
        IN  StopLossHit(price, last.seen.entry_price))
        => last.swaps # <<>>

\* C25: a rug report without a score is no data: the monitoring loop invokes
\* no swap(sell) for the held token.
C25_ScorelessReportSkipped ==
    (/\ last.op = "monitor_token"
     /\ last.seen.rug_ok
     /\ last.seen.rug_score = Null)
        => last.swaps = <<>>

\* C29: a swap(sell) that returned "success" is followed in the same
\* iteration by one position-closed notification, whichever exit condition
\* made the sell.
C29_SellNotified ==
    (/\ last.op = "monitor_token"
     /\ \E i \in 1..Len(last.swaps) : last.swaps[i].ret = "success")
        => last.notified = 1

\* the precondition of C8: rug score as desired, entry price and price positive
PnlKnown ==
    /\ last.op = "monitor_token"
    /\ last.mint \notin EXCLUDED_TOKENS
    /\ last.seen.rug_ok /\ last.seen.rug_score = RUG_SCORE
    /\ last.seen.has_entry /\ last.seen.entry_price > 0
    /\ last.seen.price > 0

\* C8: with rug score RUG_SCORE and positive entry price and price, the
\* take-profit rule invokes swap(sell) exactly when PNL% >= TAKE_PROFIT,
\* the threshold included.
C8_TakeProfitInclusive ==
    PnlKnown =>
        /\ (last.seen.price - last.seen.entry_price) * 100
               >= TAKE_PROFIT * last.seen.entry_price
             => (Triggered("take_profit") /\ last.swaps # <<>>)
        /\ (last.seen.price - last.seen.entry_price) * 100
               < TAKE_PROFIT * last.seen.entry_price
             => ~Triggered("take_profit")

\* PNL% is exactly TAKE_PROFIT and the sell was invoked
C8_Witness ==
    /\ PnlKnown
    /\ (last.seen.price - last.seen.entry_price) * 100
           = TAKE_PROFIT * last.seen.entry_price
    /\ Triggered("take_profit")
    /\ Len(last.swaps) = 1

\* C9: for a held mint with no trade record whose output mint is that mint,
\* check_and_monitor reports that entry data is missing, invokes no
\* take-profit or stop-loss sell, and continues with the next held token.
C9_NoEntryReported ==
    (/\ last.op = "monitor_token"
     /\ last.mint \notin EXCLUDED_TOKENS
     /\ get_swaps_for_token(ledger, last.mint) = <<>>)
        => /\ last.outcome = "no_entry"
           /\ last.swaps = <<>>
           /\ Len(mtokens) = last.left

====
